---- MODULE Spec2Model ----
(***************************************************************************)
(* A model of gmoshkin/tb (src/entry.cpp): the terminal colour model       *)
(* (SOG, TermRGB, Color and their arithmetic) and the half-block canvas    *)
(* (Display: resize, putPoint, clear, drawText, display).                  *)
(*                                                                         *)
(* A Color is its 16-bit attr.  A SOG is its attr (0..23).  A TermRGB is a *)
(* record [r, g, b].  A scalar operand of the templated operators is a     *)
(* record [num, den, isInt]: an int n is [n, 1, TRUE], a double k/4 is     *)
(* [k, 4, FALSE] (quarters are exact in binary floating point, so the      *)
(* products and quotients below are the ones the machine computes).        *)
(***************************************************************************)
EXTENDS Integers, Sequences, FiniteSets, TLC

VARIABLES
    width,   \* Display::width
    height,  \* Display::height (in pixels: twice the cell height)
    cells,   \* Display::cells, indexed 0 .. width*height-1
    bg,      \* Display::bg
    texts,   \* Display::texts, the queued Text overlays
    calls,   \* the tb_change_cell calls issued by the last Display operation
    last,    \* the last Display operation; for putPoint, whether its
             \* coordinates lay outside the canvas
    draws,   \* putPoint calls since the canvas was last cleared
    op,      \* the colour operation evaluated (colour-function specification)
    args,    \* its operands
    out,     \* its result
    color,   \* ColoredEntity::color of the MyCircle entity
    key,     \* the key MyCircle::update handled last, with its operand
    pc,      \* the statement of main / Termbox::loop to execute next
    running, \* Termbox::running
    currEvent, \* Termbox::currEvent
    tbSize,  \* the terminal size the backend reports (tb_width, tb_height)
    circle,  \* x, y and radius of the MyCircle entity
    entity,  \* the index of the entity Screen::draw draws next
    frame    \* the statements executed since the loop last tested running

dispVars == <<width, height, cells, bg, texts, calls, last, draws>>
evalVars == <<op, args, out>>
updVars  == <<color, key>>
loopVars == <<pc, running, currEvent, tbSize, circle, entity, frame>>
vars     == <<width, height, cells, bg, texts, calls, last, draws, op, args, out, color, key,
              pc, running, currEvent, tbSize, circle, entity, frame>>

(***************************************************************************)
(* Bounds of the model.                                                    *)
(***************************************************************************)
MaxWidth   == 2    \* terminal widths 1 .. MaxWidth
MaxCellH   == 2    \* terminal heights 1 .. MaxCellH (cells)
MaxPoints  == 2    \* putPoint calls between two clears
MaxTexts   == 1    \* queued overlays
MaxFactor  == 52   \* int factors and divisors -MaxFactor .. MaxFactor
MaxQuarter == 5    \* double factors and divisors k/4, |k| <= MaxQuarter
MaxAttr    == 300  \* int constructor inputs -MaxAttr .. MaxAttr
MaxScalar  == 17   \* int operands of Color + n, Color - n

(***************************************************************************)
(* Program constants.                                                      *)
(***************************************************************************)
RGBBase         == 16     \* 0x10
ShadeOfGrayBase == 232    \* 0xe8
TB_DEFAULT      == 0      \* termbox.h
TB_REVERSE      == 1024   \* termbox.h, 0x0400
Pixel           == "U+2584"
EmptyCell       == " "

(***************************************************************************)
(* Machine arithmetic.                                                     *)
(***************************************************************************)
U8(x)  == x % 256
U16(x) == x % 65536

\* C++ integer division and double -> int conversion truncate toward zero.
TruncDiv(a, b) ==
    LET s  == IF (a < 0) = (b < 0) THEN 1 ELSE -1
        aa == IF a < 0 THEN -a ELSE a
        bb == IF b < 0 THEN -b ELSE b
    IN  s * (aa \div bb)

IntScalar(n)     == [num |-> n, den |-> 1, isInt |-> TRUE]
QuarterScalar(k) == [num |-> k, den |-> 4, isInt |-> FALSE]

clamp(val, lo, hi) ==
    IF val < lo THEN lo ELSE IF hi < val THEN hi ELSE val

\* static_cast<uint8_t>(num/den): an int wraps modulo 256; a double whose
\* truncation is not in 0..255 is undefined behaviour, any uint8_t.
CastU8(num, den, isInt) ==
    IF isInt THEN {U8(num)}
    ELSE LET t == TruncDiv(num, den)
         IN  IF t \in 0..255 THEN {t} ELSE 0..255

(***************************************************************************)
(* SOG                                                                     *)
(***************************************************************************)
SOG(attr) == U8(clamp(attr, 0, 23))

SOGPlusN(sog, n) == SOG(sog + n)
\* Mutant: the product is narrowed to uint8_t without the clamp.
SOGMulUnclamped(sog, n) == U8(TruncDiv(sog * n.num, n.den))
SOGMul(sog, n)   == SOG(TruncDiv(sog * n.num, n.den))
SOGDiv(sog, n)   == SOG(TruncDiv(sog * n.den, n.num))
\* Mutant: the sum wraps around the 24 levels instead of saturating.
SOGPlusWraps(lhs, rhs) == (lhs + rhs) % 24
SOGPlus(lhs, rhs)  == SOG(lhs + rhs)
SOGMinus(lhs, rhs) == SOG(lhs - rhs)

SOGBlack == SOG(0)
SOGWhite == SOG(255 - ShadeOfGrayBase)

(***************************************************************************)
(* TermRGB                                                                 *)
(***************************************************************************)
TermRGB(r, g, b) ==
    [r |-> clamp(r, 0, 5), g |-> clamp(g, 0, 5), b |-> clamp(b, 0, 5)]

\* The TermRGB values built from channels drawn from rs, gs, bs.
TermRGBOf(rs, gs, bs) ==
    LET cl(S) == {clamp(v, 0, 5) : v \in S}
    IN  {TermRGB(r, g, b) : r \in cl(rs), g \in cl(gs), b \in cl(bs)}

TermRGBMul(rgb, n) ==
    TermRGBOf(CastU8(rgb.r * n.num, n.den, n.isInt),
              CastU8(rgb.g * n.num, n.den, n.isInt),
              CastU8(rgb.b * n.num, n.den, n.isInt))

TermRGBDiv(rgb, n) ==
    LET q(c) == IF n.isInt THEN CastU8(TruncDiv(c, n.num), 1, TRUE)
                ELSE CastU8(c * n.den, n.num, FALSE)
    IN  TermRGBOf(q(rgb.r), q(rgb.g), q(rgb.b))

TermRGBPlus(lhs, rhs) ==
    TermRGB(lhs.r + rhs.r, lhs.g + rhs.g, lhs.b + rhs.b)

TermRGBMinus(lhs, rhs) ==
    TermRGB(lhs.r - rhs.r, lhs.g - rhs.g, lhs.b - rhs.b)

(***************************************************************************)
(* Color                                                                   *)
(***************************************************************************)
toTerm(c) == (clamp(c, 0, 255) * 6) \div 256

ColorFromInt(attr) == U16(attr)

ColorFromSOG(sog) == U16(sog + ShadeOfGrayBase)

\* The parameters are uint16_t: an int argument is converted modulo 2^16.
ColorFromRGB8(red, green, blue) ==
    U16(RGBBase + 36 * toTerm(U16(red)) + 6 * toTerm(U16(green)) + toTerm(U16(blue)))

ColorFromTermRGB(rgb) == U16(RGBBase + 36 * rgb.r + 6 * rgb.g + rgb.b)

Default == ColorFromInt(TB_DEFAULT)

\* attr | TB_REVERSE
reversed(c) ==
    ColorFromInt(IF (c \div TB_REVERSE) % 2 = 1 THEN c ELSE c + TB_REVERSE)

isTClr(c) == c < RGBBase

\* Mutant: the upper end of the base range is not clamped.
makeTClrNoUpper(tclr) ==
    IF tclr < 0 THEN ColorFromInt(0) ELSE ColorFromInt(tclr)

makeTClr(tclr) ==
    IF tclr < 0 THEN ColorFromInt(0)
    ELSE IF tclr >= RGBBase THEN ColorFromInt(RGBBase - 1)
    ELSE ColorFromInt(tclr)

isRGB(c) == c >= RGBBase /\ c < ShadeOfGrayBase

toRGB(c) ==
    LET term == c - RGBBase
    IN  TermRGB(TruncDiv(term, 36), TruncDiv(term, 6) % 6, term % 6)

isSOG(c) == c >= ShadeOfGrayBase /\ c < 256

toSOG(c) == SOG(c - ShadeOfGrayBase)

makeSOG(sog) ==
    IF sog < 0 THEN ColorFromInt(ShadeOfGrayBase)
    ELSE IF sog > 255 - ShadeOfGrayBase THEN ColorFromInt(255)
    ELSE ColorFromInt(U16(sog + ShadeOfGrayBase))

\* Color::operator+(T n), Color::operator-(T n) for an int n.
ColorPlusN(c, n) ==
    IF isTClr(c) THEN makeTClr(c + n)
    ELSE IF isSOG(c) THEN ColorFromSOG(SOGPlusN(toSOG(c), n))
    ELSE c

ColorMinusN(c, n) == ColorPlusN(c, -n)

\* Color::operator*(T n), Color::operator/(T n): the set of possible results
\* (one result, unless a cast is undefined).
ColorMul(c, n) ==
    IF isRGB(c) THEN {ColorFromTermRGB(t) : t \in TermRGBMul(toRGB(c), n)}
    ELSE IF isSOG(c) THEN {ColorFromSOG(SOGMul(toSOG(c), n))}
    ELSE {c}

ColorDiv(c, n) ==
    IF isRGB(c) THEN {ColorFromTermRGB(t) : t \in TermRGBDiv(toRGB(c), n)}
    ELSE IF isSOG(c) THEN {ColorFromSOG(SOGDiv(toSOG(c), n))}
    ELSE {c}

\* The process is killed by SIGFPE instead of a Color being returned.
SIGFPE == -1

\* Color::operator/(T n) for n = 0: the set of possible outcomes.  r / 0 in
\* int is undefined (on x86 the process is killed by SIGFPE); r / 0.0 is an
\* infinity or a NaN, whose conversion to uint8_t (TermRGB) or to int (SOG's
\* constructor) is undefined, any value, which the constructors then clamp.
ColorDivZero(c, n) ==
    LET trap == IF n.isInt THEN {SIGFPE} ELSE {}
    IN  IF isRGB(c)
        THEN {ColorFromTermRGB(t) : t \in TermRGBOf(0..255, 0..255, 0..255)} \cup trap
        ELSE IF isSOG(c)
        THEN {ColorFromSOG(SOG(v)) : v \in (-1)..24} \cup trap
        ELSE {c}

\* operator+(const Color &, const Color &), operator-(const Color &, const Color &)
ColorPlus(lhs, rhs) ==
    IF isRGB(lhs) /\ isRGB(rhs) THEN ColorFromTermRGB(TermRGBPlus(toRGB(lhs), toRGB(rhs)))
    ELSE IF isSOG(lhs) /\ isSOG(rhs) THEN ColorFromSOG(SOGPlus(toSOG(lhs), toSOG(rhs)))
    ELSE rhs

\* Mutant: operands of different regions yield the left-hand operand.
ColorMinusKeepsLhs(lhs, rhs) ==
    IF isRGB(lhs) /\ isRGB(rhs) THEN ColorFromTermRGB(TermRGBMinus(toRGB(lhs), toRGB(rhs)))
    ELSE IF isSOG(lhs) /\ isSOG(rhs) THEN ColorFromSOG(SOGMinus(toSOG(lhs), toSOG(rhs)))
    ELSE lhs

ColorMinus(lhs, rhs) ==
    IF isRGB(lhs) /\ isRGB(rhs) THEN ColorFromTermRGB(TermRGBMinus(toRGB(lhs), toRGB(rhs)))
    ELSE IF isSOG(lhs) /\ isSOG(rhs) THEN ColorFromSOG(SOGMinus(toSOG(lhs), toSOG(rhs)))
    ELSE rhs

(***************************************************************************)
(* Text                                                                    *)
(***************************************************************************)
Text(x, y, text, fg, bgc) == [x |-> x, y |-> y, text |-> text, fg |-> fg, bg |-> bgc]

\* One tb_change_cell(x, y, ch, fg, bg) call; pass names the loop issuing it.
Call(pass, x, y, ch, fg, bgc) ==
    [pass |-> pass, x |-> x, y |-> y, ch |-> ch, fg |-> fg, bg |-> bgc]

\* Text::drawStraightToTermbox: the calls it issues, in order.
drawStraightToTermbox(t, pass) ==
    [i \in 1..Len(t.text) |-> Call(pass, t.x + (i - 1), t.y, t.text[i], t.fg, t.bg)]

\* operator<< of an unsigned integer: its decimal digits.
Digit(d) == <<"0", "1", "2", "3", "4", "5", "6", "7", "8", "9">>[d + 1]

RECURSIVE DecStr(_)
DecStr(n) == IF n < 10 THEN <<Digit(n)>> ELSE DecStr(n \div 10) \o <<Digit(n % 10)>>

\* concat(width, 'x', height)
concat(w, h) == DecStr(w) \o <<"x">> \o DecStr(h)

(***************************************************************************)
(* Display                                                                 *)
(***************************************************************************)
getIndex(x, y) == y * width + x

getPoint(x, y) ==
    IF x < 0 \/ y < 0 \/ x >= width \/ y >= height THEN Default
    ELSE cells[getIndex(x, y)]

\* Mutant: the right edge is tested with > instead of >=.
putPointCellsOffByOne(x, y, c) ==
    IF x < 0 \/ y < 0 \/ x > width \/ y >= height THEN cells
    ELSE [cells EXCEPT ![getIndex(x, y)] = c]

\* Display::putPoint(int, int, Color): the cells after the call.
putPointCells(x, y, c) ==
    IF x < 0 \/ y < 0 \/ x >= width \/ y >= height THEN cells
    ELSE [cells EXCEPT ![getIndex(x, y)] = c]

\* Mutant: the top pixel is used as foreground without the reversed flag.
PixelCallNoReverse(col, row) ==
    LET top == getPoint(col, row)
        bot == getPoint(col, row + 1)
    IN  IF bot = Default
        THEN IF bot = top
             THEN Call("pixel", col, TruncDiv(row, 2), EmptyCell, bot, top)
             ELSE Call("pixel", col, TruncDiv(row, 2), Pixel, top, bot)
        ELSE Call("pixel", col, TruncDiv(row, 2), Pixel, bot, top)

\* Mutant: black pixels are composited as if they were Default.
PixelCallBlackIsDefault(col, row) ==
    LET z(c) == IF c \in {ColorFromRGB8(0, 0, 0), ColorFromSOG(SOGBlack)} THEN Default ELSE c
        top == z(getPoint(col, row))
        bot == z(getPoint(col, row + 1))
    IN  IF bot = Default
        THEN IF bot = top
             THEN Call("pixel", col, TruncDiv(row, 2), EmptyCell, bot, top)
             ELSE Call("pixel", col, TruncDiv(row, 2), Pixel, reversed(top), bot)
        ELSE Call("pixel", col, TruncDiv(row, 2), Pixel, bot, top)

\* The tb_change_cell call Display::display issues for the cell of pixel
\* rows row, row + 1 in column col.
PixelCall(col, row) ==
    LET top == getPoint(col, row)
        bot == getPoint(col, row + 1)
    IN  IF bot = Default
        THEN IF bot = top
             THEN Call("pixel", col, TruncDiv(row, 2), EmptyCell, bot, top)
             ELSE Call("pixel", col, TruncDiv(row, 2), Pixel, reversed(top), bot)
        ELSE Call("pixel", col, TruncDiv(row, 2), Pixel, bot, top)

\* The loops of Display::display: col outermost, row in steps of 2.
PixelCalls ==
    LET nRows == (height + 1) \div 2
    IN  [i \in 1..(width * nRows) |->
            PixelCall((i - 1) \div nRows, 2 * ((i - 1) % nRows))]

\* Mutant: the size label starts at column 0 (as Screen::drawSize does).
SizeLabelAtLeft == Text(0, 0, concat(width, height), Default, Default)

\* Display::drawTexts: the size label, then the queued texts in order.
SizeLabel ==
    LET sizeText == concat(width, height)
        textCol  == width - Len(sizeText)
    IN  Text(textCol, 0, sizeText, Default, Default)

RECURSIVE QueuedCalls(_)
QueuedCalls(ts) ==
    IF ts = <<>> THEN <<>>
    ELSE drawStraightToTermbox(Head(ts), "text") \o QueuedCalls(Tail(ts))

drawTextsCalls == drawStraightToTermbox(SizeLabel, "size") \o QueuedCalls(texts)

\* Inputs of the Display operations.
Palette     == {Default, ColorFromTermRGB(TermRGB(5, 0, 0)), makeSOG(12)}
Widths      == 1..MaxWidth
CellHeights == 1..MaxCellH
PointXs     == (-1)..MaxWidth
PointYs     == (-1)..(2 * MaxCellH)
Overlays    == {Text(0, 0, <<"b", "c">>, Default, Default),
                Text(1, 0, <<"a">>, ColorFromTermRGB(TermRGB(5, 0, 0)), Default)}

resize(w, h) ==
    /\ width' = w
    /\ height' = h * 2
    /\ cells' = [i \in 0..(w * (h * 2) - 1) |-> Default]
    /\ calls' = <<>>
    /\ draws' = 0
    /\ last' = [name |-> "resize"]
    /\ UNCHANGED <<bg, texts, evalVars, updVars>>

putPoint(x, y, c) ==
    /\ cells' = putPointCells(x, y, c)
    /\ calls' = <<>>
    /\ draws' = draws + 1
    /\ last' = [name |-> "putPoint",
                 outside |-> ~(x \in 0..(width - 1) /\ y \in 0..(height - 1))]
    /\ UNCHANGED <<width, height, bg, texts, evalVars, updVars>>

\* Mutant: the cells keep what was painted.
clearKeepsCells ==
    /\ cells' = cells
    /\ calls' = <<>>
    /\ draws' = 0
    /\ last' = [name |-> "clear"]
    /\ UNCHANGED <<width, height, bg, texts, evalVars, updVars>>

clear ==
    /\ cells' = [i \in DOMAIN cells |-> bg]
    /\ calls' = <<>>
    /\ draws' = 0
    /\ last' = [name |-> "clear"]
    /\ UNCHANGED <<width, height, bg, texts, evalVars, updVars>>

drawText(x, y, text, fg, bgc) ==
    /\ texts' = Append(texts, Text(x, y, text, fg, bgc))
    /\ calls' = <<>>
    /\ last' = [name |-> "drawText"]
    /\ UNCHANGED <<width, height, cells, bg, draws, evalVars, updVars>>

\* Mutant: the overlays are flushed before the pixel pass.
displayTextsFirst ==
    /\ calls' = drawTextsCalls \o PixelCalls
    /\ texts' = <<>>
    /\ last' = [name |-> "display", queued |-> Len(texts)]
    /\ UNCHANGED <<width, height, cells, bg, draws, evalVars, updVars>>

\* Mutant: drawTexts does not empty the queue.
displayKeepsTexts ==
    /\ calls' = PixelCalls \o drawTextsCalls
    /\ texts' = texts
    /\ last' = [name |-> "display", queued |-> Len(texts)]
    /\ UNCHANGED <<width, height, cells, bg, draws, evalVars, updVars>>

display ==
    /\ calls' = PixelCalls \o drawTextsCalls
    /\ texts' = <<>>
    /\ last' = [name |-> "display", queued |-> Len(texts)]
    /\ UNCHANGED <<width, height, cells, bg, draws, evalVars, updVars>>

Resize ==
    /\ \E w \in Widths, h \in CellHeights : resize(w, h)
    /\ UNCHANGED loopVars
PutPoint ==
    /\ draws < MaxPoints
    /\ \E x \in PointXs, y \in PointYs, c \in Palette : putPoint(x, y, c)
    /\ UNCHANGED loopVars
Clear ==
    /\ clear
    /\ UNCHANGED loopVars
DrawText ==
    /\ Len(texts) < MaxTexts
    /\ \E t \in Overlays : drawText(t.x, t.y, t.text, t.fg, t.bg)
    /\ UNCHANGED loopVars
Display ==
    /\ display
    /\ UNCHANGED loopVars

(***************************************************************************)
(* Evaluation of one colour operation on operands drawn from bounded sets. *)
(***************************************************************************)
Codes  == 0..255
Colors == Codes \cup {reversed(0), reversed(196)}

IntScalars     == {IntScalar(n) : n \in (-MaxFactor)..MaxFactor}
QuarterScalars == {QuarterScalar(k) : k \in (-MaxQuarter)..MaxQuarter}
Scalars        == IntScalars \cup QuarterScalars

AttrInputs    == (-MaxAttr)..MaxAttr
ChannelInputs == ((-2)..2) \cup {42, 43, 85, 86, 127, 128, 170, 171, 213, 214}
                   \cup (254..257) \cup {65535, 65536, 65537}
TermInputs    == (-1)..6

Evaluated(o, a, r) ==
    /\ op' = o
    /\ args' = a
    /\ out' = r
    /\ UNCHANGED <<dispVars, updVars, loopVars>>

EvalPlus ==
    op = "init" /\
    \E a \in Colors, b \in Colors : Evaluated("plus", <<a, b>>, ColorPlus(a, b))

EvalMinus ==
    op = "init" /\
    \E a \in Colors, b \in Colors : Evaluated("minus", <<a, b>>, ColorMinus(a, b))

EvalMul ==
    op = "init" /\
    \E c \in Colors, n \in Scalars : \E r \in ColorMul(c, n) :
        Evaluated("mul", <<c, n>>, r)

EvalDiv ==
    op = "init" /\
    \E c \in Colors, n \in Scalars :
        /\ n.num # 0
        /\ \E r \in ColorDiv(c, n) : Evaluated("div", <<c, n>>, r)

EvalDivZero ==
    op = "init" /\
    \E c \in Colors, n \in {IntScalar(0), QuarterScalar(0)} :
        \E r \in ColorDivZero(c, n) : Evaluated("div by zero", <<c, n>>, r)

EvalColorFromInt ==
    op = "init" /\
    \E a \in AttrInputs : Evaluated("Color(int)", <<a>>, ColorFromInt(a))

EvalColorFromSOG ==
    op = "init" /\
    \E a \in AttrInputs : Evaluated("Color(SOG)", <<a>>, ColorFromSOG(SOG(a)))

EvalColorFromRGB8 ==
    op = "init" /\
    \E r \in ChannelInputs, g \in ChannelInputs, b \in ChannelInputs :
        Evaluated("Color(red,green,blue)", <<r, g, b>>, ColorFromRGB8(r, g, b))

EvalColorFromTermRGB ==
    op = "init" /\
    \E r \in TermInputs, g \in TermInputs, b \in TermInputs :
        Evaluated("Color(TermRGB)", <<r, g, b>>, ColorFromTermRGB(TermRGB(r, g, b)))

EvalMakeSOG ==
    op = "init" /\
    \E a \in AttrInputs : Evaluated("makeSOG", <<a>>, makeSOG(a))

EvalMakeTClr ==
    op = "init" /\
    \E a \in AttrInputs : Evaluated("makeTClr", <<a>>, makeTClr(a))

InitDisplayIdle ==
    /\ width = 1
    /\ height = 2
    /\ cells = [i \in 0..1 |-> Default]
    /\ bg = Default
    /\ texts = <<>>
    /\ calls = <<>>
    /\ last = [name |-> "init"]
    /\ draws = 0

InitEvalIdle ==
    /\ op = "init"
    /\ args = <<>>
    /\ out = Default

InitUpdateIdle ==
    /\ color = ColorFromRGB8(0, 255, 255)
    /\ key = [k |-> "none", n |-> 0, from |-> ColorFromRGB8(0, 255, 255)]

\* A Termbox before main calls setScreen, with the MyCircle entity.
InitLoopIdle ==
    /\ pc = "setScreen"
    /\ running = TRUE
    /\ currEvent = [type |-> 0, key |-> 0, ch |-> 0, w |-> 0, h |-> 0]
    /\ tbSize = <<2, 2>>
    /\ circle = [x |-> 1, y |-> 1, radius |-> 1]
    /\ entity = 1
    /\ frame = <<>>

InitColor == InitDisplayIdle /\ InitEvalIdle /\ InitUpdateIdle /\ InitLoopIdle

NextColor ==
    \/ EvalPlus
    \/ EvalMinus
    \/ EvalMul
    \/ EvalDiv
    \/ EvalDivZero
    \/ EvalColorFromInt
    \/ EvalColorFromSOG
    \/ EvalColorFromRGB8
    \/ EvalColorFromTermRGB
    \/ EvalMakeSOG
    \/ EvalMakeTClr

SpecColor == InitColor /\ [][NextColor]_vars

(***************************************************************************)
(* The canvas: a Display after Termbox::setScreen has sized it, under any  *)
(* sequence of calls of its operations.                                    *)
(***************************************************************************)
Init ==
    /\ \E w \in Widths, h \in CellHeights :
          /\ width = w
          /\ height = h * 2
          /\ cells = [i \in 0..(w * (h * 2) - 1) |-> Default]
    /\ bg = Default
    /\ texts = <<>>
    /\ calls = <<>>
    /\ last = [name |-> "init"]
    /\ draws = 0
    /\ InitEvalIdle
    /\ InitUpdateIdle
    /\ InitLoopIdle

Next ==
    \/ Resize
    \/ PutPoint
    \/ Clear
    \/ DrawText
    \/ Display

Spec == Init /\ [][Next]_vars

(***************************************************************************)
(* Claims about the canvas.                                                *)
(***************************************************************************)
\* The pixel at (x, y) of the canvas, and the writes of the pixel pass.
PixelAt(x, y) == cells[y * width + x]
PixelPass == {i \in DOMAIN calls : calls[i].pass = "pixel"}
Written(i) == <<calls[i].x, calls[i].y, calls[i].ch, calls[i].fg, calls[i].bg>>

\* C1: display issues, for every cell (col, r) of the canvas, exactly one
\* pixel-pass write at (col, r): blank with Default colors when both pixels
\* are Default, half-block with fg = top.reversed(), bg = Default when only
\* bot is Default, half-block with fg = bot, bg = top otherwise.
C1_PixelPassPerCell ==
    last.name = "display" =>
        /\ \A col \in 0..(width - 1), r \in 0..((height \div 2) - 1) :
              LET top == PixelAt(col, 2 * r)
                  bot == PixelAt(col, 2 * r + 1)
                  at  == {i \in PixelPass : calls[i].x = col /\ calls[i].y = r}
              IN  /\ Cardinality(at) = 1
                  /\ \A i \in at :
                        Written(i) =
                            IF bot = Default /\ top = Default
                            THEN <<col, r, EmptyCell, Default, Default>>
                            ELSE IF bot = Default
                            THEN <<col, r, Pixel, reversed(top), Default>>
                            ELSE <<col, r, Pixel, bot, top>>
        /\ Cardinality(PixelPass) = width * (height \div 2)

\* display has run on a two-column, two-row canvas holding a cell with only
\* the top pixel set and a cell with only the bottom pixel set.
C1_Witness ==
    /\ last.name = "display"
    /\ width = 2 /\ height = 4
    /\ PixelAt(0, 0) # Default /\ PixelAt(0, 1) = Default
    /\ PixelAt(1, 2) = Default /\ PixelAt(1, 3) # Default

\* The canvas of the compositing scenario: one cell, top = RGB(5,0,0),
\* bot = Default, composited with no overlay queued.
C2_Scenario ==
    /\ last.name = "display" /\ last.queued = 0
    /\ width = 1 /\ height = 2
    /\ PixelAt(0, 0) = 16 + 36 * 5 /\ PixelAt(0, 1) = Default

\* C2 as stated: in that scenario display issues exactly one cell write in
\* total, cell (0,0) with the half-block glyph, fg = RGB(5,0,0).reversed(),
\* bg = Default.
C2_ExactlyOneWrite ==
    C2_Scenario =>
        /\ Len(calls) = 1
        /\ Written(1) = <<0, 0, Pixel, reversed(16 + 36 * 5), Default>>

\* C2 amended: in that scenario display issues exactly one pixel-pass write,
\* cell (0,0) with the half-block glyph, fg = RGB(5,0,0).reversed(),
\* bg = Default, followed by the three glyphs of the size label "1x2" with
\* Default colors at cells (-2,0), (-1,0), (0,0): four writes in total.
C2_OnePixelWriteThenSizeLabel ==
    C2_Scenario =>
        /\ PixelPass = {1}
        /\ Len(calls) = 4
        /\ Written(1) = <<0, 0, Pixel, reversed(16 + 36 * 5), Default>>
        /\ Written(2) = <<-2, 0, "1", Default, Default>>
        /\ Written(3) = <<-1, 0, "x", Default, Default>>
        /\ Written(4) = <<0, 0, "2", Default, Default>>

C2_Witness == C2_Scenario /\ Len(calls) > 0

\* C3: a putPoint(x, y, color) call with x < 0, y < 0, x >= width or
\* y >= pixelHeight leaves every pixel, the dimensions and the queue of
\* overlays as they were.
C3_ClippedPutPointIsNoOp ==
    [][(last'.name = "putPoint" /\ last'.outside) =>
          (cells' = cells /\ width' = width /\ height' = height /\ texts' = texts)]_vars

\* An out-of-bounds putPoint call has been made on a canvas holding a pixel.
C3_Witness ==
    /\ last.name = "putPoint" /\ last.outside
    /\ \E i \in DOMAIN cells : cells[i] # Default

(***************************************************************************)
(* MyCircle::update: the keys that change the entity's color, and the      *)
(* compound assignments Color::operator+=, Color::operator-= with an int.  *)
(***************************************************************************)
ScalarOperands == (-MaxScalar)..MaxScalar

Handled(k, n, c) ==
    /\ key' = [k |-> k, n |-> n, from |-> color]
    /\ color' = c
    /\ UNCHANGED <<dispVars, evalVars, loopVars>>

Key1 == Handled("1", 0, ColorFromInt(0))
Key2 == Handled("2", 0, ColorFromRGB8(0, 0, 0))
Key3 == Handled("3", 0, ColorFromSOG(SOGBlack))
KeyInc == Handled(">", 1, ColorPlusN(color, 1))
KeyDec == Handled("<", 1, ColorMinusN(color, 1))
KeyPlusRGB ==
    \E t \in {TermRGB(1, 0, 0), TermRGB(0, 1, 0), TermRGB(0, 0, 1)} :
        Handled("rgb+", 0, ColorPlus(color, ColorFromTermRGB(t)))
KeyMinusRGB ==
    \E t \in {TermRGB(1, 0, 0), TermRGB(0, 1, 0), TermRGB(0, 0, 1)} :
        Handled("rgb-", 0, ColorMinus(color, ColorFromTermRGB(t)))
KeyOther == Handled("other", 0, color)
PlusAssign  == \E n \in ScalarOperands : Handled("+=", n, ColorPlusN(color, n))
MinusAssign == \E n \in ScalarOperands : Handled("-=", n, ColorMinusN(color, n))

InitUpdate == InitDisplayIdle /\ InitEvalIdle /\ InitUpdateIdle /\ InitLoopIdle

NextUpdate ==
    \/ Key1
    \/ Key2
    \/ Key3
    \/ KeyInc
    \/ KeyDec
    \/ KeyPlusRGB
    \/ KeyMinusRGB
    \/ KeyOther
    \/ PlusAssign
    \/ MinusAssign

SpecUpdate == InitUpdate /\ [][NextUpdate]_vars

(***************************************************************************)
(* Claims about the colour model.                                          *)
(***************************************************************************)
\* The palette regions and channels as the specification defines them.
InRGBRange(c)  == c \in 16..231
InGrayRange(c) == c \in 232..255
InBaseRange(c) == c \in 0..15
ChanR(c) == (c - 16) \div 36
ChanG(c) == ((c - 16) \div 6) % 6
ChanB(c) == (c - 16) % 6
Level(c) == c - 232
RGBCode(r, g, b) == 16 + 36 * r + 6 * g + b
GrayCode(l) == 232 + l
Sat(v, hi) == IF v < 0 THEN 0 ELSE IF v > hi THEN hi ELSE v

\* C4: Color + Color and Color - Color of two RGB colors is the RGB color of
\* the per-channel sums (differences) clamped to [0,5]; of two grayscale
\* colors it is the grayscale color of the level sum (difference) clamped to
\* [0,23]; nothing wraps.
C4_SameRegionSaturates ==
    op \in {"plus", "minus"} =>
        LET a == args[1]
            b == args[2]
            s == IF op = "plus" THEN 1 ELSE -1
        IN  /\ (InRGBRange(a) /\ InRGBRange(b)) =>
                    out = RGBCode(Sat(ChanR(a) + s * ChanR(b), 5),
                                  Sat(ChanG(a) + s * ChanG(b), 5),
                                  Sat(ChanB(a) + s * ChanB(b), 5))
            /\ (InGrayRange(a) /\ InGrayRange(b)) =>
                    out = GrayCode(Sat(Level(a) + s * Level(b), 23))

\* gray 20 + gray 20 has been evaluated and is gray 23.
C4_Witness ==
    op = "plus" /\ args = <<GrayCode(20), GrayCode(20)>> /\ out = GrayCode(23)

\* C5: an RGB color times a factor n is the RGB color whose channels are
\* clamp(trunc(channel * n), 0, 5): above 5 gives 5, below 0 gives 0.
C5_ScaleRGBClamps ==
    (op = "mul" /\ InRGBRange(args[1])) =>
        LET c == args[1]
            n == args[2]
        IN  out = RGBCode(Sat(TruncDiv(ChanR(c) * n.num, n.den), 5),
                          Sat(TruncDiv(ChanG(c) * n.num, n.den), 5),
                          Sat(TruncDiv(ChanB(c) * n.num, n.den), 5))

\* C6: a grayscale color of level l times n is gray clamp(trunc(l*n), 0, 23),
\* and divided by a non-zero d it is gray clamp(trunc(l/d), 0, 23).
C6_ScaleGrayClamps ==
    (op \in {"mul", "div"} /\ InGrayRange(args[1])) =>
        LET l == Level(args[1])
            n == args[2]
        IN  IF op = "mul"
            THEN out = GrayCode(Sat(TruncDiv(l * n.num, n.den), 23))
            ELSE out = GrayCode(Sat(TruncDiv(l * n.den, n.num), 23))

\* gray 23 * 2 has been evaluated and is gray 23.
C6_Witness ==
    op = "mul" /\ args = <<GrayCode(23), IntScalar(2)>> /\ out = GrayCode(23)

\* C17: dividing an RGB or grayscale color by zero is reported as an error
\* and yields no Color value, and dividing by a non-zero number always
\* yields a Color value.
C17_ZeroDivisorGuarded ==
    /\ (op = "div by zero" /\ (InRGBRange(args[1]) \/ InGrayRange(args[1]))) =>
            out \notin 0..65535
    /\ op = "div" => out \in 0..65535

\* C7: every way of constructing a Color yields a code in one of the legal
\* palette ranges, whatever the integer inputs.
C7_ConstructedInRange ==
    op \in {"Color(int)", "Color(SOG)", "Color(red,green,blue)",
             "Color(TermRGB)", "makeSOG", "makeTClr"} =>
        (InBaseRange(out) \/ InRGBRange(out) \/ InGrayRange(out))

\* C8: Color + Color and Color - Color of operands that are not both RGB and
\* not both grayscale is the right-hand operand.
C8_MixedPassThrough ==
    (/\ op \in {"plus", "minus"}
     /\ ~(InRGBRange(args[1]) /\ InRGBRange(args[2]))
     /\ ~(InGrayRange(args[1]) /\ InGrayRange(args[2]))) => out = args[2]

\* RGB(5,0,0) - gray 8 has been evaluated and is gray 8.
C8_Witness ==
    op = "minus" /\ args = <<RGBCode(5, 0, 0), GrayCode(8)>> /\ out = GrayCode(8)

\* C9: Color(red, green, blue) is RGB_BASE + 36 L(red) + 6 L(green) + L(blue)
\* with L(c) = floor(clamp(c, 0, 255) * 6 / 256): inputs below 0 give level 0,
\* inputs above 255 give level 5.
C9_FromRGB8Clamps ==
    op = "Color(red,green,blue)" =>
        LET L(c) == (Sat(c, 255) * 6) \div 256
        IN  out = RGBCode(L(args[1]), L(args[2]), L(args[3]))

\* C10: ++, --, += n and -= n on a base-range color c give the base color
\* clamp(c + n, 0, 15) resp. clamp(c - n, 0, 15), still in the base range.
C10_BaseScalarSaturates ==
    (key.k \in {">", "<", "+=", "-="} /\ InBaseRange(key.from)) =>
        /\ color = Sat(IF key.k \in {">", "+="} THEN key.from + key.n
                                                 ELSE key.from - key.n, 15)
        /\ InBaseRange(color)

\* ++ has been applied to the last base color, 15, and left it at 15.
C10_Witness ==
    key = [k |-> ">", n |-> 1, from |-> 15] /\ color = 15

(***************************************************************************)
(* Text overlays: a two-column, one-row canvas on which callers paint      *)
(* pixels and queue overlapping texts between composites.                  *)
(***************************************************************************)
MaxQueued == 2    \* overlays queued between two composites

OverlayTexts ==
    {Text(0, 0, <<"b", "c">>, Default, Default),
     Text(1, 0, <<"a">>, ColorFromTermRGB(TermRGB(5, 0, 0)), Default),
     Text(0, 0, <<"d">>, makeSOG(12), ColorFromTermRGB(TermRGB(5, 0, 0)))}

QueueText ==
    /\ Len(texts) < MaxQueued
    /\ \E t \in OverlayTexts : drawText(t.x, t.y, t.text, t.fg, t.bg)
    /\ UNCHANGED loopVars

InitOverlay ==
    /\ width = 2
    /\ height = 2
    /\ cells = [i \in 0..3 |-> Default]
    /\ bg = Default
    /\ texts = <<>>
    /\ calls = <<>>
    /\ last = [name |-> "init"]
    /\ draws = 0
    /\ InitEvalIdle
    /\ InitUpdateIdle
    /\ InitLoopIdle

NextOverlay ==
    \/ PutPoint
    \/ Clear
    \/ QueueText
    \/ Display

SpecOverlay == InitOverlay /\ [][NextOverlay]_vars

\* The glyphs of the overlays queued before the k-th one.
RECURSIVE GlyphsBefore(_, _)
GlyphsBefore(q, k) ==
    IF k <= 1 THEN 0 ELSE GlyphsBefore(q, k - 1) + Len(q[k - 1].text)

WriteOf(c) == <<c.x, c.y, c.ch, c.fg, c.bg>>
CoveredBy(t, x, y) == t.y = y /\ x >= t.x /\ x < t.x + Len(t.text)
MaxOf(S) == CHOOSE m \in S : \A n \in S : n <= m

\* C11: in one display call every cell write of a queued overlay comes after
\* all pixel-pass writes; the k-th queued overlay (x, y, text, fg, bg) writes
\* text[i] with (fg, bg) to cell (x+i, y), i increasing, and the overlays
\* are flushed in queue order; the last write to a cell covered by an
\* overlay is that of the last-queued overlay covering it.
C11_OverlaysAfterPixelsInOrder ==
    [][last'.name = "display" =>
        LET cs == calls'
            q  == texts
            px == {i \in DOMAIN cs : cs[i].pass = "pixel"}
            tx == {i \in DOMAIN cs : cs[i].pass = "text"}
            ts == SelectSeq(cs, LAMBDA c : c.pass = "text")
        IN  /\ \A i \in px, j \in tx : i < j
            /\ Len(ts) = GlyphsBefore(q, Len(q) + 1)
            /\ \A k \in DOMAIN q : \A i \in 0..(Len(q[k].text) - 1) :
                  WriteOf(ts[GlyphsBefore(q, k) + i + 1]) =
                      <<q[k].x + i, q[k].y, q[k].text[i + 1], q[k].fg, q[k].bg>>
            /\ \A x \in (-1)..3, y \in 0..1 :
                  LET on == {k \in DOMAIN q : CoveredBy(q[k], x, y)}
                      at == {i \in DOMAIN cs : cs[i].x = x /\ cs[i].y = y}
                  IN  on # {} =>
                        LET t == q[MaxOf(on)]
                            w == cs[MaxOf(at)]
                        IN  /\ w.pass = "text"
                            /\ WriteOf(w) = <<x, y, t.text[x - t.x + 1], t.fg, t.bg>>
    ]_vars

\* display has flushed two overlays that cover the same cell, over a painted
\* pixel of that cell.
C11_Witness ==
    /\ last.name = "display" /\ last.queued = 2
    /\ PixelAt(1, 0) # Default
    /\ \E i, j \in DOMAIN calls :
          /\ i < j
          /\ calls[i].pass = "text" /\ calls[j].pass = "text"
          /\ calls[i].x = 1 /\ calls[j].x = 1
          /\ calls[i].ch # calls[j].ch

\* C12: after every display the queue of overlays is empty and display has
\* drawn exactly the glyphs of the overlays queued since the previous one
\* (none when nothing was queued again); drawText appends one overlay;
\* clear and putPoint leave the queue as it is.
C12_OverlaysLiveOneFrame ==
    [][/\ last'.name = "display" =>
            /\ texts' = <<>>
            /\ Cardinality({i \in DOMAIN calls' : calls'[i].pass = "text"})
                  = GlyphsBefore(texts, Len(texts) + 1)
       /\ last'.name = "drawText" =>
            /\ Len(texts') = Len(texts) + 1
            /\ SubSeq(texts', 1, Len(texts)) = texts
       /\ last'.name \in {"clear", "putPoint"} => texts' = texts
    ]_vars

\* display has flushed two queued overlays and left the queue empty.
C12_Witness ==
    /\ last.name = "display" /\ last.queued = 2
    /\ texts = <<>>
    /\ \E i \in DOMAIN calls : calls[i].pass = "text"

(***************************************************************************)
(* Painting: points of scaled colors (Point::draw of the mul/div tests),   *)
(* the sub-pixel putPoint and drawEllipse, on a Display whose background   *)
(* is Default or a color given to its constructor.                         *)
(*                                                                         *)
(* The double coordinates of putPoint are given in quarters (x = 3 is      *)
(* 0.75), those of drawEllipse in halves (x = 3 is 1.5): every value and   *)
(* every product below is exact in binary floating point.                  *)
(***************************************************************************)
MaxPaints == 1    \* paint calls between two clears

blackToDefault(c, defolt) ==
    IF \/ isRGB(c) /\ c = ColorFromRGB8(0, 0, 0)
       \/ isSOG(c) /\ c = ColorFromSOG(SOGBlack)
    THEN defolt
    ELSE c

\* Display::putPoint(int, int, Color) on the cells cs.
putPointInto(cs, x, y, c) ==
    IF x < 0 \/ y < 0 \/ x >= width \/ y >= height THEN cs
    ELSE [cs EXCEPT ![getIndex(x, y)] = c]

\* color * a * b: the possible results of the two successive scalings.
ColorMulTwice(c, a, b) == UNION {ColorMul(r, b) : r \in ColorMul(c, a)}

\* Display::putPoint(double, double, Color), x and y in quarters.
putPointF(x, y, c) ==
    LET xFloor == TruncDiv(x, 4)
        xCeil  == xFloor + 1
        yFloor == TruncDiv(y, 4)
        yCeil  == yFloor + 1
        xFraction == QuarterScalar(x - 4 * xFloor)
        yFraction == QuarterScalar(y - 4 * yFloor)
        xRest     == QuarterScalar(4 - (x - 4 * xFloor))
        yRest     == QuarterScalar(4 - (y - 4 * yFloor))
        Splat(a, b) == {blackToDefault(r, bg) : r \in ColorMulTwice(c, a, b)}
    IN  \E c1 \in Splat(xFraction, yFraction), c2 \in Splat(xRest, yFraction),
           c3 \in Splat(xFraction, yRest), c4 \in Splat(xRest, yRest) :
          /\ cells' = putPointInto(
                        putPointInto(
                          putPointInto(
                            putPointInto(cells, xCeil, yCeil, c1),
                            xFloor, yCeil, c2),
                          xCeil, yFloor, c3),
                        xFloor, yFloor, c4)
          /\ calls' = <<>>
          /\ draws' = draws + 1
          /\ last' = [name |-> "putPointF", x |-> x, y |-> y, c |-> c]
          /\ UNCHANGED <<width, height, bg, texts, evalVars, updVars>>

\* inEllipse, all arguments in halves.  A zero radius divides by zero: the
\* quotient is an infinity or a NaN and the comparison is false.
inEllipse(x, y, cX, cY, rX, rY) ==
    IF rX = 0 \/ rY = 0 THEN FALSE
    ELSE (x - cX) * (x - cX) * rY * rY + (y - cY) * (y - cY) * rX * rX
            <= rX * rX * rY * rY

nCornersOf(col, row, e) ==
    LET in(x, y) == IF inEllipse(2 * x, 2 * y, e.x, e.y, e.rx, e.ry) THEN 1 ELSE 0
    IN  in(col, row) + in(col + 1, row) + in(col, row + 1) + in(col + 1, row + 1)

\* Mutant: squares with no corner inside the ellipse are painted too, with
\* the color scaled by 0/4.
RECURSIVE drawEllipsePaintsAll(_, _, _)
drawEllipsePaintsAll(cs, i, e) ==
    LET col0  == TruncDiv(e.x - e.rx, 2)
        col1  == TruncDiv(e.x + e.rx, 2)
        row0  == TruncDiv(e.y - e.ry, 2)
        row1  == TruncDiv(e.y + e.ry, 2)
        nRows == row1 - row0 + 1
        nCols == col1 - col0 + 1
    IN  IF nRows <= 0 \/ nCols <= 0 \/ i > nRows * nCols THEN cs
        ELSE LET col == col0 + ((i - 1) \div nRows)
                 row == row0 + ((i - 1) % nRows)
                 nCorners == nCornersOf(col, row, e)
                 scaled == CHOOSE r \in ColorMul(e.c, QuarterScalar(nCorners)) : TRUE
             IN  drawEllipsePaintsAll(putPointInto(cs, col, row, scaled), i + 1, e)

\* The loops of Display::drawEllipse from their i-th iteration on, col
\* outermost, applied to the cells cs.
RECURSIVE drawEllipseFrom(_, _, _)
drawEllipseFrom(cs, i, e) ==
    LET col0  == TruncDiv(e.x - e.rx, 2)
        col1  == TruncDiv(e.x + e.rx, 2)
        row0  == TruncDiv(e.y - e.ry, 2)
        row1  == TruncDiv(e.y + e.ry, 2)
        nRows == row1 - row0 + 1
        nCols == col1 - col0 + 1
    IN  IF nRows <= 0 \/ nCols <= 0 \/ i > nRows * nCols THEN cs
        ELSE LET col == col0 + ((i - 1) \div nRows)
                 row == row0 + ((i - 1) % nRows)
                 nCorners == nCornersOf(col, row, e)
                 scaled == CHOOSE r \in ColorMul(e.c, QuarterScalar(nCorners)) : TRUE
             IN  drawEllipseFrom(
                     IF nCorners > 0 THEN putPointInto(cs, col, row, scaled) ELSE cs,
                     i + 1, e)

\* Display::drawEllipse, x, y and the radii in halves.
drawEllipse(x, y, xRadius, yRadius, c) ==
    LET e == [x |-> x, y |-> y, rx |-> xRadius, ry |-> yRadius, c |-> c]
    IN  /\ cells' = drawEllipseFrom(cells, 1, e)
        /\ calls' = <<>>
        /\ draws' = draws + 1
        /\ last' = [name |-> "drawEllipse", e |-> e]
        /\ UNCHANGED <<width, height, bg, texts, evalVars, updVars>>

\* Point::draw of a Point whose color is c * n.
drawScaledPoint(x, y, c, n) ==
    \E r \in ColorMul(c, n) :
        /\ cells' = putPointCells(x, y, r)
        /\ calls' = <<>>
        /\ draws' = draws + 1
        /\ last' = [name |-> "putPoint",
                     outside |-> ~(x \in 0..(width - 1) /\ y \in 0..(height - 1))]
        /\ op' = "mul"
        /\ args' = <<c, n>>
        /\ out' = r
        /\ UNCHANGED <<width, height, bg, texts, updVars>>

\* Inputs of the paint operations.
PaintSizes   == {<<1, 1>>, <<2, 2>>}
Backgrounds  == {Default, ColorFromTermRGB(TermRGB(0, 0, 5))}
PointColors  == {ColorFromTermRGB(TermRGB(5, 0, 0)), makeSOG(12), makeTClr(3)}
ZeroAndOne   == {IntScalar(0), QuarterScalar(0), IntScalar(1)}
SplatColors  == {ColorFromTermRGB(TermRGB(5, 0, 0)), makeSOG(2), makeTClr(3)}
SplatPoints  == {<<-2, 0>>, <<0, 3>>, <<3, 3>>, <<5, 6>>, <<3, 4>>, <<4, 2>>}
EllipseColors == {ColorFromTermRGB(TermRGB(5, 0, 0)), makeTClr(3)}
EllipseXs    == {1, 2}
EllipseYs    == {3}
EllipseRXs   == {1, 3}
EllipseRYs   == {2, 3}

PaintResize ==
    /\ \E s \in PaintSizes : resize(s[1], s[2])
    /\ UNCHANGED loopVars

DrawScaledPoint ==
    /\ draws < MaxPaints
    /\ \E x \in {0}, y \in 0..1, c \in PointColors, n \in ZeroAndOne :
          drawScaledPoint(x, y, c, n)
    /\ UNCHANGED loopVars

PutPointF ==
    /\ draws < MaxPaints
    /\ \E p \in SplatPoints, c \in SplatColors : putPointF(p[1], p[2], c)
    /\ UNCHANGED loopVars

DrawEllipse ==
    /\ draws < MaxPaints
    /\ \E x \in EllipseXs, y \in EllipseYs, rx \in EllipseRXs, ry \in EllipseRYs,
          c \in EllipseColors : drawEllipse(x, y, rx, ry, c)
    /\ UNCHANGED loopVars

InitPaint ==
    /\ width = 2
    /\ height = 4
    /\ cells = [i \in 0..7 |-> Default]
    /\ bg \in Backgrounds
    /\ texts = <<>>
    /\ calls = <<>>
    /\ last = [name |-> "init"]
    /\ draws = 0
    /\ InitEvalIdle
    /\ InitUpdateIdle
    /\ InitLoopIdle

NextPaint ==
    \/ PaintResize
    \/ Clear
    \/ DrawScaledPoint
    \/ PutPointF
    \/ DrawEllipse
    \/ Display

SpecPaint == InitPaint /\ [][NextPaint]_vars

\* The pixel-pass write display issued for cell (col, r).
PixelWriteAt(col, r) ==
    WriteOf(calls[CHOOSE i \in PixelPass : calls[i].x = col /\ calls[i].y = r])

IsZeroValue(c) == c = RGBCode(0, 0, 0) \/ c = GrayCode(0)

\* c * 0 of an RGB color is RGB(0,0,0), of a grayscale color gray level 0.
ScaleByZeroIsZeroValue ==
    (op = "mul" /\ args[2].num = 0) =>
        /\ InRGBRange(args[1]) => out = RGBCode(0, 0, 0)
        /\ InGrayRange(args[1]) => out = GrayCode(0)

\* C13 as stated: c * 0 is the zero value of c's region, and display emits a
\* cell whose two pixels are each Default or a region zero value as the blank
\* glyph with foreground and background Default.
C13_ZeroValueIsTransparent ==
    /\ ScaleByZeroIsZeroValue
    /\ last.name = "display" =>
          \A col \in 0..(width - 1), r \in 0..((height \div 2) - 1) :
              LET top == PixelAt(col, 2 * r)
                  bot == PixelAt(col, 2 * r + 1)
              IN  ((top = Default \/ IsZeroValue(top)) /\ (bot = Default \/ IsZeroValue(bot)))
                      => PixelWriteAt(col, r) = <<col, r, EmptyCell, Default, Default>>

\* C13 amended: c * 0 is the zero value of c's region, and display composites
\* a pixel holding a zero value like any other non-Default color: over a
\* Default bottom pixel a zero-value top gives the half-block with
\* fg = top.reversed(), bg = Default; a zero-value bottom pixel gives the
\* half-block with fg = bot, bg = top; the cell is blank only when both
\* pixels are Default.
C13_ZeroValueIsOpaque ==
    /\ ScaleByZeroIsZeroValue
    /\ last.name = "display" =>
          \A col \in 0..(width - 1), r \in 0..((height \div 2) - 1) :
              LET top == PixelAt(col, 2 * r)
                  bot == PixelAt(col, 2 * r + 1)
                  w   == PixelWriteAt(col, r)
              IN  /\ (bot = Default /\ IsZeroValue(top)) =>
                        w = <<col, r, Pixel, reversed(top), Default>>
                  /\ IsZeroValue(bot) => w = <<col, r, Pixel, bot, top>>
                  /\ (w[3] = EmptyCell) => (top = Default /\ bot = Default)

\* RGB(5,0,0) * 0 has been painted as the top pixel of cell (0,0), over a
\* Default bottom pixel, and display has run.
C13_Witness ==
    /\ last.name = "display"
    /\ op = "mul" /\ args = <<RGBCode(5, 0, 0), IntScalar(0)>> /\ out = RGBCode(0, 0, 0)
    /\ PixelAt(0, 0) = RGBCode(0, 0, 0) /\ PixelAt(0, 1) = Default

\* A color scaled once by a weight of w sixteenths, w >= 0.
ScaledOnce(c, w) ==
    IF InRGBRange(c)
    THEN RGBCode(Sat((ChanR(c) * w) \div 16, 5), Sat((ChanG(c) * w) \div 16, 5),
                 Sat((ChanB(c) * w) \div 16, 5))
    ELSE IF InGrayRange(c) THEN GrayCode(Sat((Level(c) * w) \div 16, 23))
    ELSE c

\* C14: putPoint(double x, double y, color), xF = x - floor(x),
\* yF = y - floor(y), writes the four pixels (floor x, floor y),
\* (floor x + 1, floor y), (floor x, floor y + 1), (floor x + 1, floor y + 1)
\* with color scaled once by (1-xF)(1-yF), xF(1-yF), (1-xF)yF, xF*yF, a fully
\* black result replaced by Default; every other pixel is unchanged.
C14_BilinearSplat ==
    [][last'.name = "putPointF" =>
        LET x  == last'.x
            y  == last'.y
            fx == x \div 4
            fy == y \div 4
            xF == x % 4
            yF == y % 4
            Weight(px, py) == (IF px = fx THEN 4 - xF ELSE xF)
                                * (IF py = fy THEN 4 - yF ELSE yF)
            Splatted(px, py) ==
                LET r == ScaledOnce(last'.c, Weight(px, py))
                IN  IF IsZeroValue(r) THEN Default ELSE r
        IN  \A px \in 0..(width - 1), py \in 0..(height - 1) :
                cells'[py * width + px] =
                    IF px \in {fx, fx + 1} /\ py \in {fy, fy + 1}
                    THEN Splatted(px, py)
                    ELSE cells[py * width + px]
    ]_vars

\* The corners of the unit square (col, row) inside the ellipse of center
\* (cx, cy) and radii rx, ry > 0, all four in halves:
\* ((x-cx)/rx)^2 + ((y-cy)/ry)^2 <= 1.
CornerInside(x, y, e) ==
    (2 * x - e.x) * (2 * x - e.x) * e.ry * e.ry + (2 * y - e.y) * (2 * y - e.y) * e.rx * e.rx
        <= e.rx * e.rx * e.ry * e.ry

CornersInside(col, row, e) ==
    Cardinality({p \in {<<col, row>>, <<col + 1, row>>, <<col, row + 1>>, <<col + 1, row + 1>>} :
                    CornerInside(p[1], p[2], e)})

\* int(v) of a double v given in halves.
IntOfHalves(v) == IF v >= 0 THEN v \div 2 ELSE -((-v) \div 2)

InBoundingBox(col, row, e) ==
    /\ IntOfHalves(e.x - e.rx) <= col /\ col <= IntOfHalves(e.x + e.rx)
    /\ IntOfHalves(e.y - e.ry) <= row /\ row <= IntOfHalves(e.y + e.ry)

\* C15 as stated: drawEllipse paints every pixel (col, row) of the bounding
\* box with color scaled by k/4, k the number of corners of its unit square
\* inside the ellipse (also when k = 0), and writes no pixel outside the box.
C15_EveryBoxSquarePainted ==
    [][last'.name = "drawEllipse" =>
        LET e == last'.e
        IN  \A col \in 0..(width - 1), row \in 0..(height - 1) :
                cells'[row * width + col] =
                    IF InBoundingBox(col, row, e)
                    THEN ScaledOnce(e.c, 4 * CornersInside(col, row, e))
                    ELSE cells[row * width + col]
    ]_vars

\* C15 amended: drawEllipse paints every pixel (col, row) of the bounding box
\* whose unit square has k > 0 corners inside the ellipse with color scaled by
\* k/4; pixels of the box with k = 0 and pixels outside the box keep their
\* color.
C15_CoveredSquaresPainted ==
    [][last'.name = "drawEllipse" =>
        LET e == last'.e
        IN  \A col \in 0..(width - 1), row \in 0..(height - 1) :
                cells'[row * width + col] =
                    IF InBoundingBox(col, row, e) /\ CornersInside(col, row, e) > 0
                    THEN ScaledOnce(e.c, 4 * CornersInside(col, row, e))
                    ELSE cells[row * width + col]
    ]_vars

\* An RGB ellipse has been drawn over a non-Default background: it painted a
\* pixel at full color, one at a fraction, and left one as it was.
C15_Witness ==
    /\ last.name = "drawEllipse" /\ InRGBRange(last.e.c)
    /\ bg # Default
    /\ \E i, j, k \in DOMAIN cells :
          /\ cells[i] = last.e.c
          /\ InRGBRange(cells[j]) /\ cells[j] \notin {last.e.c, bg}
          /\ cells[k] = bg

\* Whether a color carries the reversed flag (attr & TB_REVERSE).
HasReverseFlag(c) == (c \div 1024) % 2 = 1

\* C20: whatever resize, clear, putPoint and drawEllipse calls came before,
\* every pixel-pass write of display that uses the half-block glyph has a
\* foreground other than Default (the non-Default bottom pixel, or a color
\* carrying the reversed flag), and the blank glyph is written only for a
\* cell whose two pixels are Default.
C20_HalfBlockForegroundNotDefault ==
    last.name = "display" =>
        \A i \in PixelPass :
            LET top == PixelAt(calls[i].x, 2 * calls[i].y)
                bot == PixelAt(calls[i].x, 2 * calls[i].y + 1)
            IN  /\ calls[i].ch \in {Pixel, EmptyCell}
                /\ calls[i].ch = Pixel =>
                      /\ calls[i].fg # Default
                      /\ \/ bot # Default /\ calls[i].fg = bot
                         \/ HasReverseFlag(calls[i].fg)
                /\ calls[i].ch = EmptyCell => (top = Default /\ bot = Default)

\* display has run on a painted canvas and has written a half-block with a
\* reversed foreground and a half-block with the bottom pixel as foreground.
C20_Witness ==
    /\ last.name = "display"
    /\ \E i, j \in PixelPass :
          /\ calls[i].ch = Pixel /\ HasReverseFlag(calls[i].fg)
          /\ calls[j].ch = Pixel /\ ~HasReverseFlag(calls[j].fg)

(***************************************************************************)
(* The program: main sizes the Screen's Display (Termbox::setScreen) and   *)
(* runs Termbox::loop over a Screen holding a MyCircle and a Point.  One   *)
(* action per statement of the loop; the backend (termbox) is the          *)
(* environment: it delivers key, resize and mouse events, times out or     *)
(* fails, and reports the new terminal size once it has delivered a resize *)
(* event.  tb_peek_event clears the event it is given before it waits.     *)
(***************************************************************************)
MaxCircleX == 3    \* the MyCircle entity is moved within -1 .. MaxCircleX

TB_EVENT_KEY      == 1
TB_EVENT_RESIZE   == 2
TB_EVENT_MOUSE    == 3
TB_KEY_CTRL_C     == 3
TB_KEY_MOUSE_LEFT == 65513

\* Termbox::quitKeys: 'q' and TB_KEY_CTRL_C.
quitKeys == <<113, TB_KEY_CTRL_C>>

TermSizes == {<<1, 1>>, <<2, 2>>}
KeyChars  == {97, 100, 113, 122}    \* 'a', 'd', 'q', 'z'

Event(type, k, ch, w, h) == [type |-> type, key |-> k, ch |-> ch, w |-> w, h |-> h]

\* Mutant: only currEvent.key is compared with the quit keys.
processKeyIgnoresCh(ev, run) ==
    IF \E i \in DOMAIN quitKeys : ev.key = quitKeys[i] THEN FALSE ELSE run

\* Termbox::processKey: the value of running after it.
processKey(ev, run) ==
    IF \E i \in DOMAIN quitKeys : ev.key = quitKeys[i] \/ ev.ch = quitKeys[i]
    THEN FALSE
    ELSE run

\* The switch of Termbox::loop, whose cases fall through to the empty
\* processResize and processMouse: the value of running after it.
dispatch(ev, run) ==
    IF ev.type = TB_EVENT_KEY THEN processKey(ev, run) ELSE run

getCurrentKey(ev) == IF ev.key # 0 THEN ev.key ELSE ev.ch

\* MyCircle::update, the cases that move or resize the circle (the cases
\* that change its color are those of the Key actions above).
MyCircleUpdate(c, k) ==
    CASE k = 43  -> [c EXCEPT !.radius = @ + 1]
      [] k = 45  -> [c EXCEPT !.radius = @ - 1]
      [] k = 119 -> [c EXCEPT !.y = @ - 1]
      [] k = 115 -> [c EXCEPT !.y = @ + 1]
      [] k = 100 -> [c EXCEPT !.x = @ + 1]
      [] k = 97  -> [c EXCEPT !.x = @ - 1]
      [] OTHER   -> c

\* The loops of Circle::draw from their i-th iteration on, _x outermost.
RECURSIVE circleDrawFrom(_, _, _, _)
circleDrawFrom(cs, i, c, clr) ==
    LET side == 2 * c.radius + 1
    IN  IF side <= 0 \/ i > side * side THEN cs
        ELSE LET dx == ((i - 1) \div side) - c.radius
                 dy == ((i - 1) % side) - c.radius
             IN  circleDrawFrom(
                     IF dx * dx + dy * dy <= c.radius * c.radius
                     THEN putPointInto(cs, c.x - dx, c.y - dy, clr)
                     ELSE cs,
                     i + 1, c, clr)

\* The text MyCircle::draw queues: concat("attr: ", (uint16_t) color, "  ").
AttrText == Text(0, 1, <<"a", "t", "t", "r", ":", " ">> \o DecStr(color) \o <<" ", " ">>,
                 Default, Default)

\* The Point entity added after the MyCircle.
ThePoint == [x |-> 0, y |-> 3, color |-> makeSOG(12)]

NumEntities == 2
DrawOf == <<"draw 1", "draw 2">>

Step(from, to, done) ==
    /\ pc = from
    /\ pc' = to
    /\ frame' = Append(frame, done)

\* Termbox::setScreen
SetScreen ==
    /\ pc = "setScreen"
    /\ pc' = "tb_clear"
    /\ resize(tbSize[1], tbSize[2])
    /\ UNCHANGED <<running, currEvent, tbSize, circle, entity, frame>>

TbClear ==
    /\ Step("tb_clear", "Display::clear", "tb_clear")
    /\ calls' = <<>>
    /\ UNCHANGED <<width, height, cells, bg, texts, last, draws, evalVars, updVars>>
    /\ UNCHANGED <<running, currEvent, tbSize, circle, entity>>

\* Screen::draw: display->clear()
DisplayClear ==
    /\ Step("Display::clear", "draw", "Display::clear")
    /\ clear
    /\ entity' = 1
    /\ UNCHANGED <<running, currEvent, tbSize, circle>>

\* Screen::draw: e->draw(*display) of the next entity
EntityDraw ==
    /\ Step("draw", IF entity = NumEntities THEN "Display::display" ELSE "draw",
            DrawOf[entity])
    /\ entity' = entity + 1
    /\ IF entity = 1
       THEN /\ cells' = circleDrawFrom(cells, 1, circle, color)
            /\ texts' = Append(texts, AttrText)
       ELSE /\ cells' = putPointInto(cells, ThePoint.x, ThePoint.y, ThePoint.color)
            /\ texts' = texts
    /\ last' = [name |-> "draw"]
    /\ UNCHANGED <<width, height, bg, calls, draws, evalVars, updVars>>
    /\ UNCHANGED <<running, currEvent, tbSize, circle>>

\* Screen::draw: display->display()
DisplayDisplay ==
    /\ Step("Display::display", "drawSize", "Display::display")
    /\ display
    /\ UNCHANGED <<running, currEvent, tbSize, circle, entity>>

\* Screen::drawSize
DrawSize ==
    /\ Step("drawSize", "tb_present", "drawSize")
    /\ calls' = calls \o drawStraightToTermbox(
                    Text(0, 0, concat(tbSize[1], tbSize[2]), Default, Default), "screen")
    /\ UNCHANGED <<width, height, cells, bg, texts, last, draws, evalVars, updVars>>
    /\ UNCHANGED <<running, currEvent, tbSize, circle, entity>>

TbPresent ==
    /\ Step("tb_present", "while", "tb_present")
    /\ UNCHANGED <<dispVars, evalVars, updVars>>
    /\ UNCHANGED <<running, currEvent, tbSize, circle, entity>>

\* while (running)
While ==
    /\ pc = "while"
    /\ IF running
       THEN pc' = "tb_peek_event" /\ frame' = <<>>
       ELSE pc' = "done" /\ frame' = frame
    /\ UNCHANGED <<dispVars, evalVars, updVars>>
    /\ UNCHANGED <<running, currEvent, tbSize, circle, entity>>

\* if (tb_peek_event(&currEvent, 1.0 / frameRate)) switch (currEvent.type) ...
\* for the value result and the event ev the backend returns.
peekEvent(result, ev, what) ==
    /\ Step("tb_peek_event", "update", what)
    /\ currEvent' = ev
    /\ running' = IF result # 0 THEN dispatch(ev, running) ELSE running
    /\ tbSize' = IF ev.type = TB_EVENT_RESIZE THEN <<ev.w, ev.h>> ELSE tbSize
    /\ UNCHANGED <<dispVars, evalVars, updVars, circle, entity>>

PeekKey ==
    \E ev \in {Event(TB_EVENT_KEY, 0, ch, 0, 0) : ch \in KeyChars}
                \cup {Event(TB_EVENT_KEY, TB_KEY_CTRL_C, 0, 0, 0)} :
        /\ ev.ch = 100 => circle.x < MaxCircleX
        /\ ev.ch = 97 => circle.x > -1
        /\ peekEvent(TB_EVENT_KEY, ev, "peek key")

PeekResize ==
    \E s \in TermSizes \ {tbSize} :
        peekEvent(TB_EVENT_RESIZE, Event(TB_EVENT_RESIZE, 0, 0, s[1], s[2]), "peek resize")

PeekMouse ==
    peekEvent(TB_EVENT_MOUSE, Event(TB_EVENT_MOUSE, TB_KEY_MOUSE_LEFT, 0, 0, 0), "peek mouse")

PeekTimeout == peekEvent(0, Event(TB_EVENT_KEY, 0, 0, 0, 0), "peek timeout")

PeekError == peekEvent(-1, Event(TB_EVENT_KEY, 0, 0, 0, 0), "peek error")

\* Screen::update
ScreenUpdate ==
    /\ Step("update", "tb_clear", "update")
    /\ circle' = MyCircleUpdate(circle, getCurrentKey(currEvent))
    /\ UNCHANGED <<dispVars, evalVars, updVars>>
    /\ UNCHANGED <<running, currEvent, tbSize, entity>>

InitLoop ==
    /\ width = 0
    /\ height = 0
    /\ cells = [i \in {} |-> Default]
    /\ bg = Default
    /\ texts = <<>>
    /\ calls = <<>>
    /\ last = [name |-> "init"]
    /\ draws = 0
    /\ InitEvalIdle
    /\ InitUpdateIdle
    /\ pc = "setScreen"
    /\ running = TRUE
    /\ currEvent = Event(0, 0, 0, 0, 0)
    /\ tbSize \in TermSizes
    /\ circle = [x |-> 1, y |-> 1, radius |-> 1]
    /\ entity = 1
    /\ frame = <<>>

NextLoop ==
    \/ SetScreen
    \/ TbClear
    \/ DisplayClear
    \/ EntityDraw
    \/ DisplayDisplay
    \/ DrawSize
    \/ TbPresent
    \/ While
    \/ PeekKey
    \/ PeekResize
    \/ PeekMouse
    \/ PeekTimeout
    \/ PeekError
    \/ ScreenUpdate

SpecLoop == InitLoop /\ [][NextLoop]_vars

\* The loop is a sequential program: it takes its next step whenever it has one.
SpecLoopFair == SpecLoop /\ WF_vars(NextLoop)

\* C16: after Termbox::setScreen, also after resize events, the canvas width
\* is the terminal width the backend reports and the canvas pixel height is
\* twice the terminal height it reports.
C16_CanvasTracksTerminal ==
    pc # "setScreen" => (width = tbSize[1] /\ height = 2 * tbSize[2])

Polls == {"peek key", "peek resize", "peek mouse", "peek timeout", "peek error"}

IterationSteps ==
    <<"update", "tb_clear", "Display::clear", "draw 1", "draw 2",
      "Display::display", "tb_present">>

IsIterationStep(s) == \E i \in DOMAIN IterationSteps : s = IterationSteps[i]

\* An entity, in its present state, paints pixel (x, y).
PaintedNow(x, y) ==
    \/ (x - circle.x) * (x - circle.x) + (y - circle.y) * (y - circle.y)
           <= circle.radius * circle.radius
    \/ (x = ThePoint.x /\ y = ThePoint.y)

\* C18: every finished iteration of the loop, whatever the poll returned, has
\* polled once and then done, exactly once each and in this order, the entity
\* update, the backend clear, Display::clear, the entities' draws in insertion
\* order, Display::display and the backend present; and from the composite on
\* the canvas holds no pixel other than the background that an entity has not
\* painted in this frame.
C18_IterationOrderAndFreshCanvas ==
    /\ (pc \in {"while", "done"} /\ frame # <<>> /\ Head(frame) \in Polls) =>
           /\ \A i \in 2..Len(frame) : frame[i] \notin Polls
           /\ SelectSeq(Tail(frame), IsIterationStep) = IterationSteps
    /\ (pc = "tb_peek_event") => frame = <<>>
    /\ (pc \in {"Display::display", "drawSize", "tb_present", "while", "done"}) =>
           \A x \in 0..(width - 1), y \in 0..(height - 1) :
               getPoint(x, y) # bg => PaintedNow(x, y)

\* An iteration whose poll timed out has finished with the circle moved to
\* column 2: pixel (0, 1), painted while the circle was at column 1, is the
\* background again and pixel (1, 1) is painted.
C18_Witness ==
    /\ pc = "while"
    /\ frame # <<>>
    /\ Head(frame) = "peek timeout"
    /\ width = 2
    /\ circle = [x |-> 2, y |-> 1, radius |-> 1]
    /\ getPoint(0, 1) = bg
    /\ getPoint(1, 1) = color

\* A key event whose key or ch is 'q' or Ctrl-C.
IsQuitEvent(ev) ==
    ev.type = TB_EVENT_KEY /\ (ev.key \in {113, 3} \/ ev.ch \in {113, 3})

\* C19: running starts true; it changes only to false, and only when the poll
\* delivers a key event whose key or ch is a quit key, which always clears
\* it (so resize events, mouse events, timeouts and poll errors leave it
\* alone); once it is false the loop never polls again, finishes the
\* iteration of the quit event with one update, clear, draw and present, and
\* exits; and the loop exits only after a quit key event.
C19_QuitKeyStopsLoop ==
    /\ running = TRUE
    /\ [][running' # running =>
            /\ ~running'
            /\ pc = "tb_peek_event"
            /\ IsQuitEvent(currEvent')]_vars
    /\ [][(pc = "tb_peek_event" /\ pc' = "update") =>
            (IsQuitEvent(currEvent') <=> ~running')]_vars
    /\ [](~running => pc # "tb_peek_event")
    /\ [](pc = "done" =>
            /\ ~running
            /\ IsQuitEvent(currEvent)
            /\ frame = <<"peek key", "update", "tb_clear", "Display::clear", "draw 1",
                         "draw 2", "Display::display", "drawSize", "tb_present">>)
    /\ (~running ~> pc = "done")

\* The loop has exited after 'q' was typed.
C19_Witness ==
    /\ pc = "done"
    /\ ~running
    /\ currEvent = Event(TB_EVENT_KEY, 0, 113, 0, 0)

====
